---------------------------- MODULE Spec2Model ----------------------------
(***************************************************************************)
(* A model of acm_lib_search.py: the markup-to-record extraction           *)
(* (parse_html and its nine field rules), the persistence boundary         *)
(* (write_results_to_disk), the ACMLibSearcher wrapper and the command     *)
(* line run.                                                               *)
(*                                                                         *)
(* Three specifications share the variables:                               *)
(*   SpecParse  the extraction functions applied to one parsed fragment    *)
(*   SpecWrite  write_results_to_disk called on a file                     *)
(*   Spec       a process that runs __main__ or uses ACMLibSearcher        *)
(***************************************************************************)
EXTENDS Integers, Sequences, FiniteSets, TLC

(***************************************************************************)
(* Bounds of the model.                                                    *)
(***************************************************************************)
\* author spans in one fragment
MaxAuthors == 2
\* fragments returned by one search (the site renders up to 20)
MaxResults == 2
\* records handed to one write_results_to_disk call
MaxRecords == 2
\* JSON objects the output file may hold before the model stops writing
MaxFile == 3
\* calls a user of ACMLibSearcher makes before being done
MaxCalls == 2

(***************************************************************************)
(* Python values.  Every value is a record of the same shape so that any   *)
(* two can be compared: its type, a sequence part and an integer part.     *)
(* A text is a sequence of tokens: words, " " and "\n".                    *)
(***************************************************************************)
PyStr(s)  == [ty |-> "str", s |-> s, n |-> 0]
PyInt(k)  == [ty |-> "int", s |-> <<>>, n |-> k]
PyList(s) == [ty |-> "list", s |-> s, n |-> 0]
PyBool(b) == [ty |-> "bool", s |-> <<>>, n |-> IF b THEN 1 ELSE 0]
None    == [ty |-> "NoneType", s |-> <<>>, n |-> 0]

\* The outcome of a call: a returned value or a raised exception.
Return(v) == [status |-> "return", value |-> v, exc |-> "none"]
Raise(e)  == [status |-> "raise", value |-> None, exc |-> e]

IsSpace(t) == t \in {" ", "\n"}

\* re.sub(r'\s+', ' ', s): every run of whitespace becomes one space.
RECURSIVE CollapseWhitespace(_)
CollapseWhitespace(s) ==
  IF s = <<>> THEN <<>>
  ELSE IF IsSpace(Head(s))
       THEN IF Len(s) > 1 /\ IsSpace(s[2])
            THEN CollapseWhitespace(Tail(s))
            ELSE <<" ">> \o CollapseWhitespace(Tail(s))
       ELSE <<Head(s)>> \o CollapseWhitespace(Tail(s))

\* re.sub(r'\n', ' ', s): every newline becomes a space.
NewlinesToSpaces(s) == [i \in 1..Len(s) |-> IF s[i] = "\n" THEN " " ELSE s[i]]

\* " ".join(chunks)
RECURSIVE JoinWithSpace(_)
JoinWithSpace(chunks) ==
  IF chunks = <<>> THEN <<>>
  ELSE IF Len(chunks) = 1 THEN Head(chunks)
       ELSE Head(chunks) \o <<" ">> \o JoinWithSpace(Tail(chunks))

(***************************************************************************)
(* A fragment as BeautifulSoup sees it: for each extraction rule, whether  *)
(* the element it looks up is there and what hangs below it.               *)
(***************************************************************************)
AuthorNames == {"Jane Doe", "John Roe"}

\* <span class="hlFld-ContribAuthor">: its first anchor and the anchor's title
AuthorSpans ==
  { [a |-> FALSE, hasTitle |-> FALSE, title |-> ""],
    [a |-> TRUE, hasTitle |-> FALSE, title |-> ""] }
  \cup { [a |-> TRUE, hasTitle |-> TRUE, title |-> nm] : nm \in AuthorNames }

AuthorSeqs == UNION { [1..k -> AuthorSpans] : k \in 0..MaxAuthors }

\* <span class="hlFld-Title">: the strings below it
TitleSpans ==
  { [present |-> FALSE, chunks |-> <<>>],
    [present |-> TRUE, chunks |-> << <<"Foo", " ", " ", "\n", " ">>, <<"Bar">> >>] }

\* <span class="epub-section__title">
ConferenceSpans ==
  { [present |-> FALSE, text |-> <<>>],
    [present |-> TRUE, text |-> <<"CHI", "\n", " ", "'24">>] }

\* <div class="issue-item__abstract ...">: its first <p>
AbstractDivs ==
  { [present |-> FALSE, p |-> FALSE, text |-> <<>>],
    [present |-> TRUE, p |-> FALSE, text |-> <<>>],
    [present |-> TRUE, p |-> TRUE, text |-> <<"We", "\n", "show.">>] }

\* <a class="issue-item__doi dot-separator">: .string is None unless the
\* anchor has exactly one string below it
DoiAnchors ==
  { [present |-> FALSE, string |-> FALSE, text |-> <<>>],
    [present |-> TRUE, string |-> FALSE, text |-> <<>>],
    [present |-> TRUE, string |-> TRUE, text |-> <<"https://doi.org/10.1145/1">>] }

\* <a data-title="PDF">: its href attribute
PdfAnchors ==
  { [present |-> FALSE, href |-> FALSE, url |-> <<>>],
    [present |-> TRUE, href |-> FALSE, url |-> <<>>],
    [present |-> TRUE, href |-> TRUE, url |-> <<"/doi/pdf/10.1145/1">>] }

\* <div class="bookPubDate simple-tooltip__block--b">
DateDivs ==
  { [present |-> FALSE, string |-> FALSE, text |-> <<>>],
    [present |-> TRUE, string |-> FALSE, text |-> <<>>],
    [present |-> TRUE, string |-> TRUE, text |-> <<"May", " ", " ", "2024">>] }

\* <div class="metric"> and <div class="citation">: the first <span> below
\* and whether int() accepts its text
MetricDivs ==
  { [present |-> FALSE, span |-> FALSE, numeric |-> FALSE, n |-> 0],
    [present |-> TRUE, span |-> FALSE, numeric |-> FALSE, n |-> 0],
    [present |-> TRUE, span |-> TRUE, numeric |-> FALSE, n |-> 0],
    [present |-> TRUE, span |-> TRUE, numeric |-> TRUE, n |-> 12] }

Fragments ==
  [ title : TitleSpans, authors : AuthorSeqs, conference : ConferenceSpans,
    abstract : AbstractDivs, doi : DoiAnchors, pdf : PdfAnchors,
    date : DateDivs, metric : MetricDivs, citation : MetricDivs ]

\* The fragment in which BeautifulSoup finds none of the elements.
EmptyFragment ==
  [ title |-> [present |-> FALSE, chunks |-> <<>>], authors |-> <<>>,
    conference |-> [present |-> FALSE, text |-> <<>>],
    abstract |-> [present |-> FALSE, p |-> FALSE, text |-> <<>>],
    doi |-> [present |-> FALSE, string |-> FALSE, text |-> <<>>],
    pdf |-> [present |-> FALSE, href |-> FALSE, url |-> <<>>],
    date |-> [present |-> FALSE, string |-> FALSE, text |-> <<>>],
    metric |-> [present |-> FALSE, span |-> FALSE, numeric |-> FALSE, n |-> 0],
    citation |-> [present |-> FALSE, span |-> FALSE, numeric |-> FALSE, n |-> 0] ]

\* A fragment in which every element is found, with one author.
FullFragment ==
  [ title |-> [present |-> TRUE, chunks |-> << <<"Foo", " ", " ", "\n", " ">>, <<"Bar">> >>],
    authors |-> << [a |-> TRUE, hasTitle |-> TRUE, title |-> "Jane Doe"] >>,
    conference |-> [present |-> TRUE, text |-> <<"CHI", "\n", " ", "'24">>],
    abstract |-> [present |-> TRUE, p |-> TRUE, text |-> <<"We", "\n", "show.">>],
    doi |-> [present |-> TRUE, string |-> TRUE, text |-> <<"https://doi.org/10.1145/1">>],
    pdf |-> [present |-> TRUE, href |-> TRUE, url |-> <<"/doi/pdf/10.1145/1">>],
    date |-> [present |-> TRUE, string |-> TRUE, text |-> <<"May", " ", " ", "2024">>],
    metric |-> [present |-> TRUE, span |-> TRUE, numeric |-> TRUE, n |-> 12],
    citation |-> [present |-> TRUE, span |-> TRUE, numeric |-> TRUE, n |-> 12] ]

\* The full fragment with an author span that holds no anchor.
BrokenFragment ==
  [ FullFragment EXCEPT !.authors = << [a |-> FALSE, hasTitle |-> FALSE, title |-> ""] >> ]

(***************************************************************************)
(* The field extraction rules.                                             *)
(***************************************************************************)
\* The loop of parse_authors over the spans from position i on, with the
\* list built so far: elem.a is None without an anchor, and None["title"]
\* is a TypeError; an anchor without the attribute is a KeyError.
RECURSIVE AuthorsLoop(_, _, _)
AuthorsLoop(spans, i, authors) ==
  IF i > Len(spans) THEN Return(PyList(authors))
  ELSE IF ~spans[i].a THEN Raise("TypeError")
       ELSE IF ~spans[i].hasTitle THEN Raise("KeyError")
            ELSE AuthorsLoop(spans, i + 1, Append(authors, spans[i].title))

\* parse_authors with its return inside the loop: it ends after the first
\* author, and falls off the end (None) when there is none.
parse_authors_return_in_loop(bs) ==
  IF bs.authors = <<>> THEN Return(None)
  ELSE AuthorsLoop(SubSeq(bs.authors, 1, 1), 1, <<>>)

parse_authors(bs) == AuthorsLoop(bs.authors, 1, <<>>)

parse_abstract(bs) ==
  IF bs.abstract.present
  THEN IF ~bs.abstract.p THEN Raise("AttributeError")
       ELSE Return(PyStr(NewlinesToSpaces(bs.abstract.text) \o <<"...">>))
  ELSE Return(PyStr(<<>>))

parse_doi(bs) ==
  IF bs.doi.present
  THEN IF bs.doi.string THEN Return(PyStr(bs.doi.text)) ELSE Return(None)
  ELSE Return(PyStr(<<>>))

parse_date(bs) ==
  IF bs.date.present
  THEN IF ~bs.date.string THEN Raise("TypeError")
       ELSE Return(PyStr(CollapseWhitespace(bs.date.text)))
  ELSE Return(PyStr(<<>>))

parse_title(bs) ==
  IF bs.title.present
  THEN Return(PyStr(CollapseWhitespace(JoinWithSpace(bs.title.chunks))))
  ELSE Return(PyStr(<<>>))

parse_conference(bs) ==
  IF bs.conference.present
  THEN Return(PyStr(CollapseWhitespace(bs.conference.text)))
  ELSE Return(PyStr(<<>>))

parse_pdf_link(bs) ==
  IF bs.pdf.present
  THEN IF bs.pdf.href THEN Return(PyStr(bs.pdf.url)) ELSE Raise("KeyError")
  ELSE Return(PyStr(<<>>))

\* The shared shape of the two counters: parent.span.text through int().
MetricCount(div) ==
  IF div.present
  THEN IF ~div.span THEN Raise("AttributeError")
       ELSE IF ~div.numeric THEN Raise("ValueError")
            ELSE Return(PyInt(div.n))
  ELSE Return(PyInt(-1))

parse_total_citations(bs) == MetricCount(bs.citation)

parse_total_downloads(bs) == MetricCount(bs.metric)

\* SearchResult.__init__: an object holding the nine attributes.
SearchResult(title, authors, conference, abstract, eprint_url, doi, total_citations, total_downloads, date) ==
  [ ty |-> "SearchResult",
    dict |-> [ title |-> title, authors |-> authors, conference |-> conference,
               abstract |-> abstract, eprint_url |-> eprint_url, doi |-> doi,
               total_citations |-> total_citations,
               total_downloads |-> total_downloads, date |-> date ] ]

\* SearchResult.to_dict: the object's attribute dictionary.
to_dict(obj) == obj.dict

\* The first of the calls, in the order parse_html makes them, that raises.
FirstRaise(outs) ==
  LET bad == { i \in 1..Len(outs) : outs[i].status = "raise" }
  IN  IF bad = {} THEN 0 ELSE CHOOSE i \in bad : \A j \in bad : i <= j

\* parse_html on the markup of one fragment.
ParseFragment(bs) ==
  LET title == parse_title(bs)
      authors == parse_authors(bs)
      conference == parse_conference(bs)
      abstract == parse_abstract(bs)
      doi == parse_doi(bs)
      pdf_link == parse_pdf_link(bs)
      date == parse_date(bs)
      tot_downloads == parse_total_downloads(bs)
      tot_citations == parse_total_citations(bs)
      calls == << title, authors, conference, abstract, doi, pdf_link, date,
                  tot_downloads, tot_citations >>
      k == FirstRaise(calls)
  IN  IF k > 0 THEN calls[k]
      ELSE Return(SearchResult(title.value, authors.value, conference.value,
                               abstract.value, pdf_link.value, doi.value,
                               tot_citations.value, tot_downloads.value,
                               date.value))

\* BeautifulSoup(html, ...): a markup string parses to its tree; anything
\* that is neither text nor bytes (a list of markups) is a TypeError.
Markup(bs) == [ty |-> "str", bs |-> bs]

ListOf(items) == [ty |-> "list", items |-> items]

BeautifulSoup(html) ==
  IF html.ty = "str" THEN Return(html.bs) ELSE Raise("TypeError")

parse_html(html) ==
  LET bs == BeautifulSoup(html)
  IN  IF bs.status = "raise" THEN bs ELSE ParseFragment(bs.value)

(***************************************************************************)
(* State.                                                                  *)
(***************************************************************************)
VARIABLES
  html,        \* SpecParse: the fragment handed to the extraction functions
  extracted,   \* SpecParse: the extraction call made and its outcome
  file,        \* the output file: the JSON objects it holds, in order
  written,     \* SpecWrite: the write_results_to_disk call made last
  stderr,      \* the tracebacks printed by the last call
  pc,          \* Spec: where the process is
  driver,      \* Spec: the browser session
  searcher,    \* Spec: the ACMLibSearcher instance's parsed_res attribute
  last,        \* Spec: the last call made and its outcome
  stdout,      \* Spec: the messages printed so far
  ncalls       \* Spec: the calls made on the searcher

vars == << html, extracted, file, written, stderr, pc, driver, searcher,
           last, stdout, ncalls >>

parseVars == << html, extracted >>
writeVars == << file, written, stderr >>
procVars  == << pc, driver, searcher, last, stdout, ncalls >>

NoCall == [op |-> "none", out |-> Return(None)]

NoWrite ==
  [ called |-> FALSE, results |-> ListOf(<<>>),
    fault |-> [kind |-> "none", at |-> 0, partial |-> FALSE],
    before |-> <<>>, out |-> Return(None),
    journal |-> [ok |-> TRUE, recs |-> <<>>] ]

NoDriver == [state |-> "none", quits |-> 0, searches |-> 0, staleSearches |-> 0]

\* An ACMLibSearcher before __init__ has run; parsed_res is no attribute of
\* the instance until a search method assigns it.
NoSearcher == [has_parsed_res |-> FALSE, parsed_res |-> None]

NoLast ==
  [ op |-> "none", scraped |-> Return(None), to_dict |-> FALSE,
    out |-> Return(None) ]

InitParseVars == html = Markup(EmptyFragment) /\ extracted = NoCall
InitWriteVars == file = <<>> /\ written = NoWrite /\ stderr = 0
InitProcVars ==
  /\ pc = "start"
  /\ driver = NoDriver
  /\ searcher = NoSearcher
  /\ last = NoLast
  /\ stdout = <<>>
  /\ ncalls = 0

(***************************************************************************)
(* SpecParse: one fragment, one extraction call.                           *)
(***************************************************************************)
InitParse ==
  /\ html \in { Markup(bs) : bs \in Fragments }
  /\ extracted = NoCall
  /\ InitWriteVars
  /\ InitProcVars

CallParseHtml ==
  /\ extracted.op = "none"
  /\ extracted' = [op |-> "parse_html", out |-> parse_html(html)]
  /\ UNCHANGED << html, writeVars, procVars >>

CallParseAuthors ==
  /\ extracted.op = "none"
  /\ extracted' = [op |-> "parse_authors", out |-> parse_authors(html.bs)]
  /\ UNCHANGED << html, writeVars, procVars >>

NextParse == CallParseHtml \/ CallParseAuthors

SpecParse == InitParse /\ [][NextParse]_vars

(***************************************************************************)
(* Claims about the extraction.                                            *)
(***************************************************************************)
Extraction == extracted.out

FieldNames ==
  { "title", "authors", "conference", "abstract", "eprint_url", "doi",
    "total_citations", "total_downloads", "date" }

\* A field's sentinel: "" for a text, [] for the authors, -1 for a counter.
Sentinel(f) ==
  IF f = "authors" THEN PyList(<<>>)
  ELSE IF f \in {"total_citations", "total_downloads"} THEN PyInt(-1)
       ELSE PyStr(<<>>)

\* A value of the field's declared type.
OfDeclaredType(f, v) ==
  IF f = "authors" THEN v.ty = "list"
  ELSE IF f \in {"total_citations", "total_downloads"} THEN v.ty = "int"
       ELSE v.ty = "str"

\* The fields of a fragment whose expected structure is absent: the
\* container is missing, or it is there without the inner element,
\* attribute or single text the rule reads.
StructureAbsent(bs) ==
  (IF ~bs.title.present THEN {"title"} ELSE {})
  \cup (IF bs.authors = <<>> THEN {"authors"} ELSE {})
  \cup (IF ~bs.conference.present THEN {"conference"} ELSE {})
  \cup (IF ~(bs.abstract.present /\ bs.abstract.p) THEN {"abstract"} ELSE {})
  \cup (IF ~(bs.doi.present /\ bs.doi.string) THEN {"doi"} ELSE {})
  \cup (IF ~(bs.pdf.present /\ bs.pdf.href) THEN {"eprint_url"} ELSE {})
  \cup (IF ~(bs.date.present /\ bs.date.string) THEN {"date"} ELSE {})
  \cup (IF ~(bs.metric.present /\ bs.metric.span) THEN {"total_downloads"} ELSE {})
  \cup (IF ~(bs.citation.present /\ bs.citation.span) THEN {"total_citations"} ELSE {})

\* C1: for every fragment, also one where a container is present without
\* its inner element or attribute, parse_html returns one record, no
\* exception escapes, and every field whose structure is absent holds its
\* sentinel.
C1_NoExceptionEscapes ==
  extracted.op = "parse_html" =>
    /\ Extraction.status = "return"
    /\ Extraction.value.ty = "SearchResult"
    /\ \A f \in StructureAbsent(html.bs) :
         to_dict(Extraction.value)[f] = Sentinel(f)

\* C2: every record parse_html returns has all nine fields, each a value of
\* its declared type or its sentinel, never null.
C2_AllFieldsNeverNull ==
  (extracted.op = "parse_html" /\ Extraction.status = "return") =>
    /\ DOMAIN to_dict(Extraction.value) = FieldNames
    /\ \A f \in FieldNames :
         LET v == to_dict(Extraction.value)[f]
         IN  v # None /\ (OfDeclaredType(f, v) \/ v = Sentinel(f))

\* Every author span of the fragment has an anchor with a title attribute.
WellFormedAuthors(bs) ==
  \A i \in 1..Len(bs.authors) : bs.authors[i].a /\ bs.authors[i].hasTitle

\* C9: on a fragment with N well-formed author elements parse_authors
\* returns exactly N entries, the i-th the title attribute of the i-th
\* element, and the empty list when N = 0.
C9_AuthorsInDocumentOrder ==
  (extracted.op = "parse_authors" /\ WellFormedAuthors(html.bs)) =>
    /\ Extraction.status = "return"
    /\ Extraction.value.ty = "list"
    /\ Len(Extraction.value.s) = Len(html.bs.authors)
    /\ \A i \in 1..Len(html.bs.authors) :
         Extraction.value.s[i] = html.bs.authors[i].title

\* parse_authors has returned for two well-formed author elements with
\* different names.
C9_Witness ==
  /\ extracted.op = "parse_authors"
  /\ WellFormedAuthors(html.bs)
  /\ Len(html.bs.authors) = 2
  /\ html.bs.authors[1].title # html.bs.authors[2].title
  /\ Extraction.status = "return"


(***************************************************************************)
(* Persistence.  The output file is the sequence of JSON objects written   *)
(* to it; an object whose write was cut short by an I/O error is there     *)
(* incomplete.                                                             *)
(***************************************************************************)
\* json.dump(d, f, indent=2): the dictionary as one JSON object.
JsonObject(d) == [complete |-> TRUE, obj |-> d]

PartialObject(d) == [complete |-> FALSE, obj |-> d]

\* What the file system does to a call: nothing, open() fails, or the
\* at-th json.dump fails, with or without part of the object written.
NoFault == [kind |-> "none", at |-> 0, partial |-> FALSE]

Faults ==
  { NoFault, [kind |-> "open", at |-> 0, partial |-> FALSE] }
  \cup [kind : {"write"}, at : 1..MaxRecords, partial : BOOLEAN]

\* The for loop of write_results_to_disk from record i on.
RECURSIVE DumpAll(_, _, _, _)
DumpAll(content, results, i, fault) ==
  IF i > Len(results) THEN [ok |-> TRUE, file |-> content]
  ELSE IF fault.kind = "write" /\ fault.at = i
       THEN [ ok |-> FALSE,
              file |-> IF fault.partial
                       THEN Append(content, PartialObject(to_dict(results[i])))
                       ELSE content ]
       ELSE DumpAll(Append(content, JsonObject(to_dict(results[i]))),
                    results, i + 1, fault)

\* write_results_to_disk with open() outside the try block: a failure to
\* open the file escapes.
write_results_to_disk_open_outside_try(content, results, fault) ==
  LET rs == IF results.ty = "SearchResult" THEN <<results>> ELSE results.items
      d == DumpAll(content, rs, 1, fault)
  IN  IF fault.kind = "open"
      THEN [out |-> Raise("OSError"), file |-> content, tracebacks |-> 0]
      ELSE IF d.ok
           THEN [out |-> Return(PyBool(TRUE)), file |-> d.file, tracebacks |-> 0]
           ELSE [out |-> Return(PyBool(FALSE)), file |-> d.file, tracebacks |-> 1]

\* write_results_to_disk opening the file with mode 'w': the previous
\* content is dropped.
write_results_to_disk_truncating(content, results, fault) ==
  LET rs == IF results.ty = "SearchResult" THEN <<results>> ELSE results.items
      d == DumpAll(<<>>, rs, 1, fault)
  IN  IF fault.kind = "open"
      THEN [out |-> Return(PyBool(FALSE)), file |-> content, tracebacks |-> 1]
      ELSE IF d.ok
           THEN [out |-> Return(PyBool(TRUE)), file |-> d.file, tracebacks |-> 0]
           ELSE [out |-> Return(PyBool(FALSE)), file |-> d.file, tracebacks |-> 1]

\* write_results_to_disk(file_path, results) on a file holding content:
\* the value returned, the file afterwards and the tracebacks printed.
write_results_to_disk(content, results, fault) ==
  LET rs == IF results.ty = "SearchResult" THEN <<results>> ELSE results.items
      d == DumpAll(content, rs, 1, fault)
  IN  IF fault.kind = "open"
      THEN [out |-> Return(PyBool(FALSE)), file |-> content, tracebacks |-> 1]
      ELSE IF d.ok
           THEN [out |-> Return(PyBool(TRUE)), file |-> d.file, tracebacks |-> 0]
           ELSE [out |-> Return(PyBool(FALSE)), file |-> d.file, tracebacks |-> 1]

(***************************************************************************)
(* SpecWrite: calls of write_results_to_disk on one file.                  *)
(***************************************************************************)
\* The records handed to the calls: what parse_html returns.
WriteRecords == { parse_html(Markup(bs)).value : bs \in {EmptyFragment, FullFragment} }

WriteInputs ==
  WriteRecords
  \cup { ListOf(rs) : rs \in UNION { [1..k -> WriteRecords] : k \in 0..MaxRecords } }

RecordsOf(results) ==
  IF results.ty = "SearchResult" THEN <<results>> ELSE results.items

InitWrite ==
  /\ InitParseVars
  /\ InitWriteVars
  /\ InitProcVars

CallWrite(results, fault) ==
  LET w == write_results_to_disk(file, results, fault)
  IN  /\ Len(file) + Len(RecordsOf(results)) <= MaxFile
      /\ file' = w.file
      /\ stderr' = w.tracebacks
      /\ written' =
           [ called |-> TRUE, results |-> results, fault |-> fault,
             before |-> file, out |-> w.out,
             journal |->
               IF written.journal.ok /\ w.out = Return(PyBool(TRUE))
               THEN [ok |-> TRUE, recs |-> written.journal.recs \o RecordsOf(results)]
               ELSE [ok |-> FALSE, recs |-> <<>>] ]
      /\ UNCHANGED << parseVars, procVars >>

NextWrite == \E results \in WriteInputs, fault \in Faults : CallWrite(results, fault)

SpecWrite == InitWrite /\ [][NextWrite]_vars


(***************************************************************************)
(* Claims about persistence.                                               *)
(***************************************************************************)
\* The objects a call adds when every record is written.
ObjectsOf(recs) == [i \in 1..Len(recs) |-> JsonObject(to_dict(recs[i]))]

\* The file system failed the call: open() did, or a json.dump the loop
\* reached.
FaultHit(w) ==
  \/ w.fault.kind = "open"
  \/ w.fault.kind = "write" /\ w.fault.at <= Len(RecordsOf(w.results))

\* C6: write_results_to_disk never lets a failure escape: it returns True
\* when every record was written, and returns False after printing the
\* traceback when opening or writing fails.
C6_FailureNeverEscapes ==
  written.called =>
    /\ written.out.status = "return"
    /\ written.out.value \in {PyBool(TRUE), PyBool(FALSE)}
    /\ FaultHit(written) =>
         (written.out.value = PyBool(FALSE) /\ stderr = 1)
    /\ ~FaultHit(written) =>
         /\ written.out.value = PyBool(TRUE)
         /\ file = written.before \o ObjectsOf(RecordsOf(written.results))

\* A call on a file that held an object has failed at open().
C6_Witness ==
  /\ written.called
  /\ FaultHit(written)
  /\ written.fault.kind = "open"
  /\ written.before # <<>>
  /\ written.out = Return(PyBool(FALSE))

\* C10: a successful call only appends: the previous content stays as a
\* prefix and one object per record follows it in the records' order; after
\* successful calls only, the file holds the objects of all the calls
\* back-to-back in call order.
C10_AppendOnly ==
  /\ (written.called /\ written.out = Return(PyBool(TRUE))) =>
       LET recs == RecordsOf(written.results)
           base == Len(written.before)
       IN  /\ Len(file) = base + Len(recs)
           /\ SubSeq(file, 1, base) = written.before
           /\ \A i \in 1..Len(recs) :
                file[base + i] = JsonObject(to_dict(recs[i]))
  /\ written.journal.ok => file = ObjectsOf(written.journal.recs)

\* A successful call of two different records on a file that already held
\* an object.
C10_Witness ==
  /\ written.called
  /\ written.out = Return(PyBool(TRUE))
  /\ written.before # <<>>
  /\ Len(RecordsOf(written.results)) = 2
  /\ RecordsOf(written.results)[1] # RecordsOf(written.results)[2]
  /\ written.journal.ok


(***************************************************************************)
(* The browser session, the result-set functions, ACMLibSearcher and the   *)
(* command line run.                                                       *)
(***************************************************************************)
\* setup_chromedriver: a new headless browser session.
setup_chromedriver == [state |-> "open", quits |-> 0, searches |-> 0, staleSearches |-> 0]

\* quit_driver as called with the positional arguments args: the call
\* itself is a TypeError unless exactly the driver is passed; the body
\* quits the driver.
quit_driver(args, drv) ==
  IF Len(args) # 1
  THEN [out |-> Raise("TypeError"), driver |-> drv]
  ELSE [ out |-> Return(None),
         driver |-> [drv EXCEPT !.state = "quit", !.quits = @ + 1] ]

\* What the site does to a search: the waits time out, or the result
\* items found are returned as a list of their outer HTML.
SearchFragments == {EmptyFragment, FullFragment, BrokenFragment}

Pages ==
  { Raise("TimeoutException") }
  \cup { Return(ListOf(ms)) :
           ms \in UNION { [1..k -> {Markup(bs) : bs \in SearchFragments}] :
                          k \in 0..MaxResults } }

\* search_acm_for_title(title, driver) when the site answers with page.
search_acm_for_title(page, drv) ==
  [ out |-> IF drv.state = "open" THEN page ELSE Raise("InvalidSessionIdException"),
    driver |-> [drv EXCEPT !.searches = @ + 1,
                           !.staleSearches = IF drv.state = "open" THEN @ ELSE @ + 1] ]

\* The loop of get_search_results_from_html over its arguments from i on.
RECURSIVE SearchResLoop(_, _, _)
SearchResLoop(args, i, search_res) ==
  IF i > Len(args) THEN Return(ListOf(search_res))
  ELSE LET r == parse_html(args[i])
       IN  IF r.status = "raise" THEN r
           ELSE SearchResLoop(args, i + 1, Append(search_res, r.value))

\* get_search_results_from_html(*args): the list is built and the function
\* ends without a return statement.
get_search_results_from_html(args) ==
  LET built == SearchResLoop(args, 1, <<>>)
  IN  IF built.status = "raise" THEN built ELSE Return(None)

\* get_top_search_result_from_html(*args)
get_top_search_result_from_html(args) ==
  IF args = <<>> THEN Raise("IndexError") ELSE parse_html(args[1])

\* A dictionary as a value.
PyDict(d) == [ty |-> "dict", dict |-> d]

\* [res.to_dict() for res in parsed_res]
DictsOf(parsed_res) ==
  IF parsed_res.ty # "list" THEN Raise("TypeError")
  ELSE Return(ListOf([i \in 1..Len(parsed_res.items) |->
                        PyDict(to_dict(parsed_res.items[i]))]))

\* ACMLibSearcher.search_top_20(paper_title, to_dict)
search_top_20(self, drv, page, as_dict) ==
  LET found == search_acm_for_title(page, drv)
      parsed == IF found.out.status = "raise" THEN found.out
                ELSE get_search_results_from_html(<< found.out.value >>)
  IN  IF parsed.status = "raise"
      THEN [out |-> parsed, self |-> self, driver |-> found.driver]
      ELSE [ out |-> IF as_dict THEN DictsOf(parsed.value) ELSE parsed,
             self |-> [has_parsed_res |-> TRUE, parsed_res |-> parsed.value],
             driver |-> found.driver ]

\* ACMLibSearcher.search_top_1(paper_title, to_dict)
search_top_1(self, drv, page, as_dict) ==
  LET found == search_acm_for_title(page, drv)
      parsed == IF found.out.status = "raise" THEN found.out
                ELSE get_top_search_result_from_html(<< found.out.value >>)
  IN  IF parsed.status = "raise"
      THEN [out |-> parsed, self |-> self, driver |-> found.driver]
      ELSE [ out |-> IF as_dict THEN Return(PyDict(to_dict(parsed.value)))
                     ELSE parsed,
             self |-> [has_parsed_res |-> TRUE, parsed_res |-> parsed.value],
             driver |-> found.driver ]

\* not x, for the values parsed_res can hold.
Falsy(v) == v = None \/ (v.ty = "list" /\ v.items = <<>>)

\* ACMLibSearcher.save_results(file_path) on a file holding content.
save_results(self, content, fault) ==
  IF ~self.has_parsed_res
  THEN [out |-> Raise("AttributeError"), file |-> content, tracebacks |-> 0]
  ELSE IF Falsy(self.parsed_res)
       THEN [out |-> Raise("ValueError"), file |-> content, tracebacks |-> 0]
       ELSE LET w == write_results_to_disk(content, self.parsed_res, fault)
            IN  [out |-> Return(None), file |-> w.file, tracebacks |-> w.tracebacks]

\* The __main__ block, run to its end or to the first exception that
\* escapes, when the site answers the search with page.
main(page, content, fault) ==
  LET drv == setup_chromedriver
      found == search_acm_for_title(page, drv)
      quit == quit_driver(<<>>, found.driver)
      res == get_top_search_result_from_html(<< found.out.value >>)
      w == write_results_to_disk(content, res.value, fault)
      stop(o, d) == [ out |-> o, scraped |-> found.out, driver |-> d,
                      file |-> content, tracebacks |-> 0, stdout |-> <<>> ]
  IN  IF found.out.status = "raise" THEN stop(found.out, found.driver)
      ELSE IF quit.out.status = "raise" THEN stop(quit.out, found.driver)
      ELSE IF res.status = "raise" THEN stop(res, quit.driver)
      ELSE [ out |-> Return(None), scraped |-> found.out,
             driver |-> quit.driver, file |-> w.file,
             tracebacks |-> w.tracebacks,
             stdout |-> IF w.out.value = PyBool(TRUE) THEN <<"Done">>
                        ELSE <<"Failed to save. Something went wrong. Aborting...">> ]

(***************************************************************************)
(* Spec: a process that runs the module as a program, or imports it and    *)
(* uses one ACMLibSearcher until it is done with it.                       *)
(***************************************************************************)
Init ==
  /\ InitParseVars
  /\ InitWriteVars
  /\ InitProcVars

\* python acm_lib_search.py --paper_title ...
Main(page, fault) ==
  LET m == main(page, file, fault)
  IN  /\ pc = "start"
      /\ pc' = "exited"
      /\ driver' = m.driver
      /\ file' = m.file
      /\ stderr' = m.tracebacks
      /\ stdout' = m.stdout
      /\ last' = [op |-> "main", scraped |-> m.scraped, to_dict |-> FALSE, out |-> m.out]
      /\ UNCHANGED << parseVars, written, searcher, ncalls >>

\* searcher = ACMLibSearcher(...)
NewSearcher ==
  /\ pc = "start"
  /\ pc' = "using"
  /\ driver' = setup_chromedriver
  /\ UNCHANGED << parseVars, writeVars, searcher, last, stdout, ncalls >>

SearchTop20(page, as_dict) ==
  LET c == search_top_20(searcher, driver, page, as_dict)
  IN  /\ pc = "using" /\ ncalls < MaxCalls
      /\ ncalls' = ncalls + 1
      /\ searcher' = c.self
      /\ driver' = c.driver
      /\ last' = [ op |-> "search_top_20", scraped |-> page,
                   to_dict |-> as_dict, out |-> c.out ]
      /\ UNCHANGED << parseVars, writeVars, pc, stdout >>

SearchTop1(page, as_dict) ==
  LET c == search_top_1(searcher, driver, page, as_dict)
  IN  /\ pc = "using" /\ ncalls < MaxCalls
      /\ ncalls' = ncalls + 1
      /\ searcher' = c.self
      /\ driver' = c.driver
      /\ last' = [ op |-> "search_top_1", scraped |-> page,
                   to_dict |-> as_dict, out |-> c.out ]
      /\ UNCHANGED << parseVars, writeVars, pc, stdout >>

SaveResults(fault) ==
  LET c == save_results(searcher, file, fault)
  IN  /\ pc = "using" /\ ncalls < MaxCalls
      /\ ncalls' = ncalls + 1
      /\ file' = c.file
      /\ stderr' = c.tracebacks
      /\ last' = [ op |-> "save_results", scraped |-> Return(None),
                   to_dict |-> FALSE, out |-> c.out ]
      /\ UNCHANGED << parseVars, written, pc, driver, searcher, stdout >>

\* The caller is done with the searcher; the class has no method that
\* quits the driver, and nothing else does.
CallerDone ==
  /\ pc = "using"
  /\ pc' = "exited"
  /\ UNCHANGED << parseVars, writeVars, driver, searcher, last, stdout, ncalls >>

Next ==
  \/ \E page \in Pages, fault \in Faults : Main(page, fault)
  \/ NewSearcher
  \/ \E page \in Pages, as_dict \in BOOLEAN : SearchTop20(page, as_dict)
  \/ \E page \in Pages, as_dict \in BOOLEAN : SearchTop1(page, as_dict)
  \/ \E fault \in Faults : SaveResults(fault)
  \/ CallerDone

Spec == Init /\ [][Next]_vars


(***************************************************************************)
(* Claims about the result sets, the session and the command line run.     *)
(***************************************************************************)
\* The fragments the last search returned.
Scraped == last.scraped.value.items

\* The search of the last call returned fragments, each of which
\* parse_html turns into a record.
ScrapedParsable ==
  /\ last.scraped.status = "return"
  /\ last.scraped.value.ty = "list"
  /\ \A i \in 1..Len(Scraped) : parse_html(Scraped[i]).status = "return"

\* C3: search_top_20 on a search that returned N fragments returns exactly
\* N records, the i-th the extraction of the i-th fragment.
C3_Top20InDocumentOrder ==
  (last.op = "search_top_20" /\ ScrapedParsable) =>
    /\ last.out.status = "return"
    /\ last.out.value.ty = "list"
    /\ Len(last.out.value.items) = Len(Scraped)
    /\ \A i \in 1..Len(Scraped) :
         last.out.value.items[i] =
           IF last.to_dict THEN PyDict(to_dict(parse_html(Scraped[i]).value))
           ELSE parse_html(Scraped[i]).value

\* C4: search_top_1 on a search that returned at least one fragment yields
\* the record parse_html makes of the first fragment alone.
C4_Top1IsFirstFragment ==
  (last.op = "search_top_1" /\ ScrapedParsable /\ Len(Scraped) >= 1) =>
    /\ last.out.status = "return"
    /\ last.out.value =
         IF last.to_dict THEN PyDict(to_dict(parse_html(Scraped[1]).value))
         ELSE parse_html(Scraped[1]).value

\* C5: the session is acquired before the first search, no search is
\* issued on a released session, and when the caller is done, on every
\* exit path, the driver has been quit exactly once.
C5_SessionReleasedOnce ==
  /\ driver.searches > 0 => driver.state # "none"
  /\ driver.staleSearches = 0
  /\ pc = "exited" => driver.quits = 1

\* C7: a command line run whose search returned at least one fragment ends
\* with exactly one message: the success message with the top-1 record
\* appended to the file as one object, or the failure message.
C7_RunEndsWithOneMessage ==
  ( /\ pc = "exited" /\ last.op = "main"
    /\ last.scraped.status = "return"
    /\ Len(Scraped) >= 1 ) =>
    \/ /\ stdout = <<"Done">>
       /\ Len(file) = 1
       /\ file[1].complete
    \/ /\ stdout = <<"Failed to save. Something went wrong. Aborting...">>
       /\ stderr = 1

\* C8: save_results returns True or False, and raises ValueError when
\* there is nothing to write, also on a searcher on which no search has
\* completed.
C8_SaveResultsReports ==
  last.op = "save_results" =>
    IF ~searcher.has_parsed_res \/ Falsy(searcher.parsed_res)
    THEN last.out = Raise("ValueError")
    ELSE last.out \in {Return(PyBool(TRUE)), Return(PyBool(FALSE))}


=============================================================================
